---- MODULE Spec2Model ----
(***************************************************************************)
(* Fast marching solution of |grad phi| = 1 as coded in                    *)
(* fipy/models/levelSet/distanceFunction/distanceEquation.py               *)
(* (DistanceEquation.solve and the three phases it runs), and the diagonal  *)
(* writes of fipy/tools/sparseMatrix.py (SparseMatrix.put, putDiagonal).    *)
(*                                                                         *)
(* Real numbers are fixed-point integers: the value x is stored as the     *)
(* integer x * Scale, a division rounds to the nearest unit and a square   *)
(* root rounds down.  The not-a-number value is the integer NaN.           *)
(***************************************************************************)
EXTENDS Integers, Sequences, FiniteSets, TLC

\* ------------------------------------------------------------------ bounds
\* fixed-point unit: 1.0 is Scale units (a multiple of 12 keeps the halves
\* and thirds the interface interpolation produces exact)
Scale == 4 * 3

\* the largest number of cells of a mesh
MaxCells == 4

\* initial values range over -MaxPhi .. MaxPhi (in whole units)
MaxPhi == 2

\* the longest row of the one-dimensional scenario
MaxRow == 8

\* the largest size N of a SparseMatrix
MaxSize == 3

\* the most calls made on one SparseMatrix
MaxCalls == 2

\* ------------------------------------------------------------------- state
VARIABLES
    mesh,           \* the Grid2D the variable lives on: [nx, ny, dx, dy, cut]
    var,            \* self.var: cell -> value
    var0,           \* the field solve() was called with (history)
    setValueFlag,   \* cell -> 0 (Unknown), 1 (Known), 2 (Trial)
    flag1,          \* the flags the interface classifier returned (history)
    trialCellIDs,   \* the propagator's list of Trial cells
    order,          \* the cells the propagator finalized, in order (history)
    pc,             \* position in solve(); "trial_error" and "marching_error":
                    \* an exception raised in phase 2 or in the propagator
                    \* ended it
    err,            \* the exception solve() ended with, or "none"
    ret,            \* the result of a direct call of _calcTrialValue
    matrix,         \* SparseMatrix.matrix: <<row, column>> -> entry
    call,           \* the last call made on the SparseMatrix (history)
    ncalls          \* the number of calls made on the SparseMatrix

vars == <<mesh, var, var0, setValueFlag, flag1, trialCellIDs, order, pc, err, ret,
          matrix, call, ncalls>>

solveVars == <<mesh, var, var0, setValueFlag, flag1, trialCellIDs, order, pc, err, ret>>

matrixVars == <<matrix, call, ncalls>>

\* --------------------------------------------------------------- arithmetic
\* The value Numeric.sqrt gives for a negative argument where it does not raise.
NaN == 0 - 1000000

IsNaN(x) == x = NaN

Abs(x) == IF x < 0 THEN 0 - x ELSE x

\* a / b for a >= 0 and b > 0, rounded to the nearest unit
DivPos(a, b) == (2 * a + b) \div (2 * b)

\* a / b for b # 0, rounded to the nearest unit (halves away from zero)
Div(a, b) ==
    IF (a >= 0) = (b > 0) THEN DivPos(Abs(a), Abs(b)) ELSE 0 - DivPos(Abs(a), Abs(b))

RECURSIVE SqrtIter(_, _, _)
SqrtIter(n, lo, hi) ==
    IF lo >= hi THEN lo
    ELSE LET mid == (lo + hi + 1) \div 2
         IN  IF mid * mid <= n THEN SqrtIter(n, mid, hi)
                               ELSE SqrtIter(n, lo, mid - 1)

\* floor of the square root of n >= 0
Sqrt(n) == SqrtIter(n, 0, 46340)

\* sign of a value as the claims speak of it: -1, 0, 1 (2 for not-a-number)
Sign(x) == IF IsNaN(x) THEN 2 ELSE IF x > 0 THEN 1 ELSE IF x < 0 THEN 0 - 1 ELSE 0

\* --------------------------------------------------------------------- mesh
\* Grid2D(dx, dy, nx, ny): cell j * nx + i sits in column i of row j.  With
\* cut > 0 the faces between columns cut - 1 and cut are exterior faces, which
\* leaves two components that share no face.
M == 4

Slots == 0 .. (M - 1)

NumberOfCells(m) == m.nx * m.ny

Cells(m) == 0 .. (NumberOfCells(m) - 1)

Col(m, c) == c % m.nx

Row(m, c) == c \div m.nx

\* face slots of a cell, anticlockwise: 0 bottom, 1 right, 2 top, 3 left
HasNeighbour(m, c, s) ==
    CASE s = 0 -> Row(m, c) > 0
      [] s = 1 -> Col(m, c) < m.nx - 1 /\ ~(m.cut > 0 /\ Col(m, c) = m.cut - 1)
      [] s = 2 -> Row(m, c) < m.ny - 1
      [] OTHER -> Col(m, c) > 0 /\ ~(m.cut > 0 /\ Col(m, c) = m.cut)

\* mesh.getCellToCellIDsFilled()[c][s]: an exterior face holds the cell's own id
CellToCellIDsFilled(m, c, s) ==
    IF ~HasNeighbour(m, c, s) THEN c
    ELSE CASE s = 0 -> c - m.nx
           [] s = 1 -> c + 1
           [] s = 2 -> c + m.nx
           [] OTHER -> c - 1

\* mesh.getCellToCellDistances()[c][s]: centre to centre, centre to face on
\* an exterior face
CellToCellDistances(m, c, s) ==
    LET d == IF s \in {1, 3} THEN m.dx ELSE m.dy
    IN  IF HasNeighbour(m, c, s) THEN d ELSE d \div 2

\* mesh.getCellNormals()[c][s]: the outward unit normal <<x, y>>
CellNormals(m, c, s) ==
    CASE s = 0 -> <<0, 0 - 1>>
      [] s = 1 -> <<1, 0>>
      [] s = 2 -> <<0, 1>>
      [] OTHER -> <<0 - 1, 0>>

\* the cells that share a face with c
Neighbours(m, c) ==
    {CellToCellIDsFilled(m, c, s) : s \in {t \in Slots : HasNeighbour(m, c, t)}}

\* take(var.getInterfaceFlag(), mesh.getCellFaceIDs())[c][s]: the face borders
\* a cell of the opposite sign
CellZeroFlag(m, v, c, s) ==
    IF HasNeighbour(m, c, s) /\ v[c] * v[CellToCellIDsFilled(m, c, s)] < 0
    THEN 1 ELSE 0

\* ------------------------------------------------- _calcInterfaceValues
\* distance[c][s] = phi * dAP / abs(phi - phiAdj) * cellZeroFlag; 0 where the
\* face borders no cell of the opposite sign
Distance(m, v, c, s) ==
    IF CellZeroFlag(m, v, c, s) = 1
    THEN Div(v[c] * CellToCellDistances(m, c, s),
             Abs(v[c] - v[CellToCellIDsFilled(m, c, s)]))
    ELSE 0

\* MA.masked_values(distance, 0): the slots that are not masked
Unmasked(m, v, c) == {s \in Slots : Distance(m, v, c, s) # 0}

\* faulty variant: the minimum is taken of distance, not of abs(distance)
ArgMinSlotSigned(m, v, c) ==
    IF Unmasked(m, v, c) = {} THEN 0
    ELSE CHOOSE s \in Unmasked(m, v, c) :
            \A t \in Unmasked(m, v, c) :
                \/ Distance(m, v, c, s) < Distance(m, v, c, t)
                \/ Distance(m, v, c, s) = Distance(m, v, c, t) /\ s <= t

\* MA.argmin(abs(distance), axis = 1)[c]: the first slot of least magnitude
ArgMinSlot(m, v, c) ==
    IF Unmasked(m, v, c) = {} THEN 0
    ELSE CHOOSE s \in Unmasked(m, v, c) :
            \A t \in Unmasked(m, v, c) :
                \/ Abs(Distance(m, v, c, s)) < Abs(Distance(m, v, c, t))
                \/ Abs(Distance(m, v, c, s)) = Abs(Distance(m, v, c, t)) /\ s <= t

\* cellFlag = Numeric.sum(cellZeroFlag, axis = 1)
CellFlag(m, v, c) ==
    Cardinality({s \in Slots : CellZeroFlag(m, v, c, s) = 1})

\* the field after self.var.setValue(MA.where(cellFlag > 0, distance, self.var))
InterfaceValues(m, v) ==
    [c \in Cells(m) |->
        IF CellFlag(m, v, c) > 0 THEN Distance(m, v, c, ArgMinSlot(m, v, c))
                                 ELSE v[c]]

\* faulty variant: a cell is flagged only with two faces on the interface
InterfaceFlagsTwoFaces(m, v) ==
    [c \in Cells(m) |-> IF CellFlag(m, v, c) > 1 THEN 1 ELSE 0]

\* the flags returned: Numeric.where(cellFlag > 0, 1, 0)
InterfaceFlags(m, v) ==
    [c \in Cells(m) |-> IF CellFlag(m, v, c) > 0 THEN 1 ELSE 0]

\* faulty variant: the two branches are returned in the other order
CalcLinearSwapped(phi, d) ==
    IF IsNaN(phi) THEN <<NaN, NaN>> ELSE <<phi - d, phi + d>>

\* ------------------------------------------------------------- _calcLinear
CalcLinear(phi, d) ==
    IF IsNaN(phi) THEN <<NaN, NaN>> ELSE <<phi + d, phi - d>>

\* ---------------------------------------------------------- _calcQuadratic
Dot(n1, n2) == n1[1] * n2[1] + n1[2] * n2[2]

\* the argument of Numeric.sqrt is negative
NegativeDiscriminant(phi1, phi2, n1, n2, d1, d2) ==
    LET dotProd   == d1 * d2 * Dot(n1, n2)
        crossProd == d1 * d2 * (n1[1] * n2[2] - n1[2] * n2[1])
        dsq       == d1 * d1 + d2 * d2 - 2 * dotProd
    IN  crossProd # 0 /\ dsq - (phi1 - phi2) * (phi1 - phi2) < 0

\* the two roots where the square root is defined
QuadraticRoots(phi1, phi2, n1, n2, d1, d2) ==
    LET dotProd   == d1 * d2 * Dot(n1, n2)
        crossProd == d1 * d2 * (n1[1] * n2[2] - n1[2] * n2[1])
        dsq       == d1 * d1 + d2 * d2 - 2 * dotProd
        top       == (0 - phi1) * (dotProd - d2 * d2) - phi2 * (dotProd - d1 * d1)
        sqrt      == IF crossProd = 0 THEN 0
                     ELSE Sqrt(crossProd * crossProd
                               * (dsq - (phi1 - phi2) * (phi1 - phi2)))
    IN  <<Div(top + sqrt, dsq), Div(top - sqrt, dsq)>>

\* The outcomes of _calcQuadratic.  Numeric.sqrt of a negative (or
\* not-a-number) argument either raises or yields not-a-number, by the build
\* of the array library; the method itself makes no check.
CalcQuadratic(phi1, phi2, n1, n2, d1, d2) ==
    IF IsNaN(phi1) \/ IsNaN(phi2)
          \/ NegativeDiscriminant(phi1, phi2, n1, n2, d1, d2)
    THEN {[kind |-> "ok", roots |-> <<NaN, NaN>>],
          [kind |-> "ValueError", roots |-> <<NaN, NaN>>]}
    ELSE {[kind |-> "ok", roots |-> QuadraticRoots(phi1, phi2, n1, n2, d1, d2)]}

\* --------------------------------------------------------- _calcTrialValue
\* the slots MA.array(phiAdj, mask = take(setValueFlag, cellToCellIDs) != 1)
\* leaves unmasked
KnownSlots(m, f, c) == {s \in Slots : f[CellToCellIDsFilled(m, c, s)] = 1}

\* NSetValues = len(values.mask()) - Numeric.sum(values.mask())
NSetValues(m, f, c) == Cardinality(KnownSlots(m, f, c))

\* The pairs <<argsort[0], argsort[1]>> MA.argsort(abs(values)) can give: the
\* masked slots sort last, slots of equal magnitude in either order, and a
\* not-a-number among the values leaves the order open.
FirstTwo(m, v, f, c) ==
    LET K      == KnownSlots(m, f, c)
        key(s) == Abs(v[CellToCellIDsFilled(m, c, s)])
        anyNaN == \E s \in K : IsNaN(v[CellToCellIDsFilled(m, c, s)])
    IN  {p \in K \X K :
            /\ p[1] # p[2]
            /\ \/ anyNaN
               \/ /\ key(p[1]) <= key(p[2])
                  /\ \A s \in K \ {p[1], p[2]} : key(p[2]) <= key(s)}

\* sign = -1; if self.var[cellID] > 0: sign = 1
TrialSign(v, c) == IF ~IsNaN(v[c]) /\ v[c] > 0 THEN 1 ELSE 0 - 1

\* The outcomes of _calcTrialValue(cellID, setValueFlag): a value returned
\* (kind "ok") or the exception raised.
CalcTrialValue(m, v, f, c) ==
    LET K == KnownSlots(m, f, c)
        pick(pair) == IF TrialSign(v, c) > 0 THEN pair[1] ELSE pair[2]
    IN  IF NSetValues(m, f, c) = 0
        THEN {[kind |-> "NameError", val |-> NaN]}
        ELSE IF NSetValues(m, f, c) = 1
        THEN LET s == CHOOSE t \in K : TRUE
             IN  {[kind |-> "ok",
                   val  |-> pick(CalcLinear(v[CellToCellIDsFilled(m, c, s)],
                                            CellToCellDistances(m, c, s)))]}
        ELSE {[kind |-> q.kind, val |-> pick(q.roots)] :
                q \in UNION {CalcQuadratic(v[CellToCellIDsFilled(m, c, p[1])],
                                           v[CellToCellIDsFilled(m, c, p[2])],
                                           CellNormals(m, c, p[1]),
                                           CellNormals(m, c, p[2]),
                                           CellToCellDistances(m, c, p[1]),
                                           CellToCellDistances(m, c, p[2])) :
                             p \in FirstTwo(m, v, f, c)}}

\* ------------------------------------------------- _calcInitialTrialValues
\* faulty variant: only the neighbours of the same row are summed
SumAdjacentCellFlagRow(m, f, c) ==
    f[CellToCellIDsFilled(m, c, 1)] + f[CellToCellIDsFilled(m, c, 3)]

\* sumAdjacentCellFlag = Numeric.sum(Numeric.take(setValueFlag, cellToCellIDs))
SumAdjacentCellFlag(m, f, c) ==
    f[CellToCellIDsFilled(m, c, 0)] + f[CellToCellIDsFilled(m, c, 1)]
        + f[CellToCellIDsFilled(m, c, 2)] + f[CellToCellIDsFilled(m, c, 3)]

\* faulty variant: the inner where is left out, a Known cell beside a Known cell
\* becomes Trial
InitialTrialFlagsAll(m, f) ==
    [c \in Cells(m) |-> IF SumAdjacentCellFlag(m, f, c) = 0 THEN f[c] ELSE 2]

\* faulty variant: every cell that is not classified becomes Trial
InitialTrialFlagsEvery(m, f) ==
    [c \in Cells(m) |-> IF f[c] = 1 THEN 1 ELSE 2]

\* the flags after the nested Numeric.where
InitialTrialFlags(m, f) ==
    [c \in Cells(m) |->
        IF SumAdjacentCellFlag(m, f, c) = 0 THEN f[c]
        ELSE IF f[c] = 1 THEN f[c] ELSE 2]

\* for cellID in trialCellIDs: self.var[cellID] = self._calcTrialValue(...),
\* from cell c on: the fields the loop can end with, and the exception that
\* ended it
RECURSIVE InitialTrialLoop(_, _, _, _)
InitialTrialLoop(m, f, v, c) ==
    IF c >= NumberOfCells(m) THEN {[var |-> v, err |-> "none"]}
    ELSE IF f[c] # 2 THEN InitialTrialLoop(m, f, v, c + 1)
    ELSE UNION {IF o.kind = "ok"
                THEN InitialTrialLoop(m, f, [v EXCEPT ![c] = o.val], c + 1)
                ELSE {[var |-> v, err |-> o.kind]} :
                o \in CalcTrialValue(m, v, f, c)}

\* faulty variant: every cell that is not Known is listed
RECURSIVE TrialCellsNotKnown(_, _, _)
TrialCellsNotKnown(m, f, c) ==
    IF c >= NumberOfCells(m) THEN <<>>
    ELSE IF f[c] # 1 THEN <<c>> \o TrialCellsNotKnown(m, f, c + 1)
    ELSE TrialCellsNotKnown(m, f, c + 1)

\* Numeric.nonzero(Numeric.where(setValueFlag == 2, 1, 0)) from cell c on
RECURSIVE TrialCells(_, _, _)
TrialCells(m, f, c) ==
    IF c >= NumberOfCells(m) THEN <<>>
    ELSE IF f[c] = 2 THEN <<c>> \o TrialCells(m, f, c + 1)
    ELSE TrialCells(m, f, c + 1)

\* ---------------------------------------------------- _calcRemainingValues
\* faulty variant: the last index of least magnitude
ArgMinLast(v, ids) ==
    IF IsNaN(v[ids[1]]) THEN 1
    ELSE CHOOSE i \in 1 .. Len(ids) :
            /\ ~IsNaN(v[ids[i]])
            /\ \A j \in 1 .. Len(ids) :
                  \/ IsNaN(v[ids[j]])
                  \/ Abs(v[ids[i]]) < Abs(v[ids[j]])
                  \/ Abs(v[ids[i]]) = Abs(v[ids[j]]) /\ i >= j

\* faulty variant: the head of the list, whatever its magnitude
ArgFirst(v, ids) == 1

\* Numeric.argmin(abs(Numeric.take(self.var, trialCellIDs))): the first index
\* of least magnitude; a not-a-number is picked only at the head of the list
\* and is otherwise passed over
ArgMin(v, ids) ==
    IF IsNaN(v[ids[1]]) THEN 1
    ELSE CHOOSE i \in 1 .. Len(ids) :
            /\ ~IsNaN(v[ids[i]])
            /\ \A j \in 1 .. Len(ids) :
                  \/ IsNaN(v[ids[j]])
                  \/ Abs(v[ids[i]]) < Abs(v[ids[j]])
                  \/ Abs(v[ids[i]]) = Abs(v[ids[j]]) /\ i <= j

\* faulty variant: the finalized cell stays in the list
RemoveNothing(ids, i) == ids

\* trialCellIDs.remove(cellID)
Remove(ids, i) == SubSeq(ids, 1, i - 1) \o SubSeq(ids, i + 1, Len(ids))

\* faulty variant: a neighbour that turns Trial is not appended to the list
RECURSIVE RelaxLoopNoAppend(_, _, _, _, _, _)
RelaxLoopNoAppend(m, cellID, v, f, ids, s) ==
    IF s >= M THEN {[var |-> v, flag |-> f, ids |-> ids, err |-> "none"]}
    ELSE LET adjCellID == CellToCellIDsFilled(m, cellID, s)
         IN  IF f[adjCellID] = 1 THEN RelaxLoopNoAppend(m, cellID, v, f, ids, s + 1)
             ELSE UNION {IF o.kind # "ok"
                         THEN {[var |-> v, flag |-> f, ids |-> ids, err |-> o.kind]}
                         ELSE RelaxLoopNoAppend(m, cellID,
                                                [v EXCEPT ![adjCellID] = o.val],
                                                [f EXCEPT ![adjCellID] = 2],
                                                ids, s + 1) :
                         o \in CalcTrialValue(m, v, f, adjCellID)}

\* faulty variant: the test setValueFlag[adjCellID] != 1 is left out, a Known
\* neighbour is recomputed too
RECURSIVE RelaxLoopAll(_, _, _, _, _, _)
RelaxLoopAll(m, cellID, v, f, ids, s) ==
    IF s >= M THEN {[var |-> v, flag |-> f, ids |-> ids, err |-> "none"]}
    ELSE LET adjCellID == CellToCellIDsFilled(m, cellID, s)
         IN  UNION {IF o.kind # "ok"
                    THEN {[var |-> v, flag |-> f, ids |-> ids, err |-> o.kind]}
                    ELSE IF f[adjCellID] = 0
                    THEN RelaxLoopAll(m, cellID,
                                      [v EXCEPT ![adjCellID] = o.val],
                                      [f EXCEPT ![adjCellID] = 2],
                                      Append(ids, adjCellID), s + 1)
                    ELSE RelaxLoopAll(m, cellID,
                                      [v EXCEPT ![adjCellID] = o.val],
                                      f, ids, s + 1) :
                    o \in CalcTrialValue(m, v, f, adjCellID)}

\* faulty variant: every neighbour that is relaxed is appended to the list,
\* a neighbour that is Trial already too
RECURSIVE RelaxLoopAppendAll(_, _, _, _, _, _)
RelaxLoopAppendAll(m, cellID, v, f, ids, s) ==
    IF s >= M THEN {[var |-> v, flag |-> f, ids |-> ids, err |-> "none"]}
    ELSE LET adjCellID == CellToCellIDsFilled(m, cellID, s)
         IN  IF f[adjCellID] = 1 THEN RelaxLoopAppendAll(m, cellID, v, f, ids, s + 1)
             ELSE UNION {IF o.kind # "ok"
                         THEN {[var |-> v, flag |-> f, ids |-> ids, err |-> o.kind]}
                         ELSE RelaxLoopAppendAll(m, cellID,
                                                 [v EXCEPT ![adjCellID] = o.val],
                                                 [f EXCEPT ![adjCellID] = 2],
                                                 Append(ids, adjCellID), s + 1) :
                         o \in CalcTrialValue(m, v, f, adjCellID)}

\* for adjCellID in cellToCellIDs: ..., from slot s on: the states the loop
\* can end with, and the exception that ended it
RECURSIVE RelaxLoop(_, _, _, _, _, _)
RelaxLoop(m, cellID, v, f, ids, s) ==
    IF s >= M THEN {[var |-> v, flag |-> f, ids |-> ids, err |-> "none"]}
    ELSE LET adjCellID == CellToCellIDsFilled(m, cellID, s)
         IN  IF f[adjCellID] = 1 THEN RelaxLoop(m, cellID, v, f, ids, s + 1)
             ELSE UNION {IF o.kind # "ok"
                         THEN {[var |-> v, flag |-> f, ids |-> ids, err |-> o.kind]}
                         ELSE IF f[adjCellID] = 0
                         THEN RelaxLoop(m, cellID,
                                        [v EXCEPT ![adjCellID] = o.val],
                                        [f EXCEPT ![adjCellID] = 2],
                                        Append(ids, adjCellID), s + 1)
                         ELSE RelaxLoop(m, cellID,
                                        [v EXCEPT ![adjCellID] = o.val],
                                        f, ids, s + 1) :
                         o \in CalcTrialValue(m, v, f, adjCellID)}

\* ------------------------------------------------------------------ inputs
\* the spacings of the module's doctests: dx = dy = 1., and dx = .5, dy = 2.
Spacings == {<<Scale, Scale>>, <<Scale \div 2, 2 * Scale>>}

\* the grids of at most MaxCells cells, whole or cut after the first column
Meshes ==
    {m \in [nx : 1 .. MaxCells, ny : 1 .. MaxCells, dx : {Scale \div 2, Scale},
            dy : {Scale, 2 * Scale}, cut : 0 .. MaxCells] :
        /\ m.nx * m.ny <= MaxCells
        /\ <<m.dx, m.dy>> \in Spacings
        /\ m.cut \in {0, 1}
        /\ m.cut < m.nx}

InitValues == {Scale * k : k \in (0 - MaxPhi) .. MaxPhi}

\* the input contract of DistanceEquation.__init__: both signs occur
HasSignChange(v) ==
    /\ \E c \in DOMAIN v : v[c] > 0
    /\ \E c \in DOMAIN v : v[c] < 0

\* no SparseMatrix has been constructed
NoMatrix ==
    /\ matrix = <<>>
    /\ call = [op |-> "none", vector |-> <<>>, id1 |-> <<>>, id2 |-> <<>>]
    /\ ncalls = 0

\* ------------------------------------------------------------------ solve()
Init ==
    /\ mesh \in Meshes
    /\ var \in [Cells(mesh) -> InitValues]
    /\ var0 = var
    /\ setValueFlag = [c \in Cells(mesh) |-> 0]
    /\ flag1 = setValueFlag
    /\ trialCellIDs = <<>>
    /\ order = <<>>
    /\ pc = "solve"
    /\ err = "none"
    /\ ret = [kind |-> "none", val |-> 0, cell |-> 0]
    /\ NoMatrix

\* setValueFlag = self._calcInterfaceValues()
CalcInterfaceValues ==
    /\ pc = "solve"
    /\ var' = InterfaceValues(mesh, var)
    /\ setValueFlag' = InterfaceFlags(mesh, var)
    /\ flag1' = setValueFlag'
    /\ pc' = "interface"
    /\ UNCHANGED <<mesh, var0, trialCellIDs, order, err, ret>>
    /\ UNCHANGED matrixVars

\* setValueFlag = self._calcInitialTrialValues(setValueFlag)
CalcInitialTrialValues ==
    /\ pc = "interface"
    /\ setValueFlag' = InitialTrialFlags(mesh, setValueFlag)
    /\ \E r \in InitialTrialLoop(mesh, setValueFlag', var, 0) :
          /\ var' = r.var
          /\ err' = r.err
          /\ pc' = IF r.err = "none" THEN "trial" ELSE "trial_error"
    /\ UNCHANGED <<mesh, var0, flag1, trialCellIDs, order, ret>>
    /\ UNCHANGED matrixVars

\* self._calcRemainingValues(setValueFlag), up to the head of its loop
CalcRemainingValuesEnter ==
    /\ pc = "trial"
    /\ trialCellIDs' = TrialCells(mesh, setValueFlag, 0)
    /\ pc' = "marching"
    /\ UNCHANGED <<mesh, var, var0, setValueFlag, flag1, order, err, ret>>
    /\ UNCHANGED matrixVars

\* cellID = trialCellIDs[argmin]: the cell the next iteration finalizes
NextCellID == trialCellIDs[ArgMin(var, trialCellIDs)]

\* faulty variant: the neighbours are relaxed before the cell is marked Known
StepOutcomesUnmarked ==
    RelaxLoop(mesh, NextCellID, var, setValueFlag,
              Remove(trialCellIDs, ArgMin(var, trialCellIDs)), 0)

\* the states one iteration of the loop body can end in
StepOutcomes ==
    RelaxLoop(mesh, NextCellID, var, [setValueFlag EXCEPT ![NextCellID] = 1],
              Remove(trialCellIDs, ArgMin(var, trialCellIDs)), 0)

\* one iteration of while len(trialCellIDs) > 0
CalcRemainingValuesStep ==
    /\ pc = "marching"
    /\ Len(trialCellIDs) > 0
    /\ \E r \in StepOutcomes :
          /\ var' = r.var
          /\ setValueFlag' = r.flag
          /\ trialCellIDs' = r.ids
          /\ err' = r.err
          /\ pc' = IF r.err = "none" THEN "marching" ELSE "marching_error"
    /\ order' = Append(order, NextCellID)
    /\ UNCHANGED <<mesh, var0, flag1, ret>>
    /\ UNCHANGED matrixVars

\* the loop ends and solve() returns
CalcRemainingValuesExit ==
    /\ pc = "marching"
    /\ Len(trialCellIDs) = 0
    /\ pc' = "done"
    /\ UNCHANGED <<mesh, var, var0, setValueFlag, flag1, trialCellIDs, order, err, ret>>
    /\ UNCHANGED matrixVars

Next ==
    \/ CalcInterfaceValues
    \/ CalcInitialTrialValues
    \/ CalcRemainingValuesEnter
    \/ CalcRemainingValuesStep
    \/ CalcRemainingValuesExit

Spec == Init /\ [][Next]_vars

\* ------------------------------------------- the one-dimensional scenario
\* a row of n cells, -1 on the first k of them and +1 on the others
RowMeshes ==
    {m \in [nx : 2 .. MaxRow, ny : {1}, dx : {Scale \div 2, Scale},
            dy : {Scale, 2 * Scale}, cut : {0}] : <<m.dx, m.dy>> \in Spacings}

StepField(n, k) == [c \in 0 .. (n - 1) |-> IF c < k THEN 0 - Scale ELSE Scale]

InitRow ==
    /\ mesh \in RowMeshes
    /\ \E k \in 1 .. (mesh.nx - 1) : var = StepField(mesh.nx, k)
    /\ var0 = var
    /\ setValueFlag = [c \in Cells(mesh) |-> 0]
    /\ flag1 = setValueFlag
    /\ trialCellIDs = <<>>
    /\ order = <<>>
    /\ pc = "solve"
    /\ err = "none"
    /\ ret = [kind |-> "none", val |-> 0, cell |-> 0]
    /\ NoMatrix

SpecRow == InitRow /\ [][Next]_vars

\* ------------------------------------------ a row with two interfaces
\* a row of n cells: a on the first j cells, -1 on the cells j .. k - 1, b on
\* the others
SlabField(n, j, k, a, b) ==
    [c \in 0 .. (n - 1) |->
        IF c < j THEN a * Scale ELSE IF c < k THEN 0 - Scale ELSE b * Scale]

InitSlab ==
    /\ mesh \in RowMeshes
    /\ \E j \in 1 .. (mesh.nx - 1), a, b \in 1 .. MaxPhi :
          \E k \in (j + 1) .. (mesh.nx - 1) :
              var = SlabField(mesh.nx, j, k, a, b)
    /\ var0 = var
    /\ setValueFlag = [c \in Cells(mesh) |-> 0]
    /\ flag1 = setValueFlag
    /\ trialCellIDs = <<>>
    /\ order = <<>>
    /\ pc = "solve"
    /\ err = "none"
    /\ ret = [kind |-> "none", val |-> 0, cell |-> 0]
    /\ NoMatrix

SpecSlab == InitSlab /\ [][Next]_vars

\* solve() on the small grids and on the rows with two interfaces
InitMarch == Init \/ InitSlab

SpecMarch == InitMarch /\ [][Next]_vars

\* ------------------------------------- a direct call of _calcTrialValue
\* eqn._calcTrialValue(cellID, setValueFlag) called, as the doctests call the
\* phases one by one, with the field and the flags at hand
CallCalcTrialValue ==
    /\ pc \in {"solve", "interface", "trial", "marching", "done"}
    /\ \E c \in Cells(mesh) :
          \E o \in CalcTrialValue(mesh, var, setValueFlag, c) :
              ret' = [kind |-> o.kind, val |-> o.val, cell |-> c]
    /\ pc' = "called"
    /\ UNCHANGED <<mesh, var, var0, setValueFlag, flag1, trialCellIDs, order, err>>
    /\ UNCHANGED matrixVars

NextCalc ==
    \/ Next
    \/ CallCalcTrialValue

SpecCalc == Init /\ [][NextCalc]_vars

\* ------------------------------------------------------------ SparseMatrix
\* self.matrix.shape[0]
Shape(mat) == Cardinality({p \in DOMAIN mat : p[2] = 0})

\* self.matrix.put(vector, id1, id2) from element k on: entry
\* <<id1[k], id2[k]>> is set to vector[k]
RECURSIVE Put(_, _, _, _, _)
Put(mat, vector, id1, id2, k) ==
    IF k > Len(vector) THEN mat
    ELSE Put([mat EXCEPT ![<<id1[k], id2[k]>>] = vector[k]], vector, id1, id2, k + 1)

\* Numeric.arange(n)
Arange(n) == [i \in 1 .. n |-> i - 1]

\* faulty variant: the diagonal past the end of the vector is cleared
PutDiagonalWhole(mat, vector) ==
    LET ids == Arange(Shape(mat))
    IN  Put(mat, [i \in 1 .. Shape(mat) |->
                     IF i <= Len(vector) THEN vector[i] ELSE 0], ids, ids, 1)

\* ids = Numeric.arange(len(vector)); self.put(vector, ids, ids)
PutDiagonal(mat, vector) ==
    LET ids == Arange(Len(vector))
    IN  Put(mat, vector, ids, ids, 1)

\* pi, as the doctests write it into a matrix
Pi == (355 * Scale) \div 113

\* the entries the doctests write: 3., 10. and pi
Values == {3 * Scale, 10 * Scale, Pi}

\* the vectors of at most n entries
Vectors(n) == UNION {[1 .. k -> Values] : k \in 0 .. n}

\* L = SparseMatrix(size = n): an empty n x n matrix
InitMatrix ==
    /\ \E n \in 1 .. MaxSize :
          matrix = [p \in (0 .. (n - 1)) \X (0 .. (n - 1)) |-> 0]
    /\ call = [op |-> "__init__", vector |-> <<>>, id1 |-> <<>>, id2 |-> <<>>]
    /\ ncalls = 0
    /\ mesh = [nx |-> 1, ny |-> 1, dx |-> Scale, dy |-> Scale, cut |-> 0]
    /\ var = <<>>
    /\ var0 = <<>>
    /\ setValueFlag = <<>>
    /\ flag1 = <<>>
    /\ trialCellIDs = <<>>
    /\ order = <<>>
    /\ pc = "matrix"
    /\ err = "none"
    /\ ret = [kind |-> "none", val |-> 0, cell |-> 0]

\* L.put((v,), (i,), (j,)): one entry written
CallPut ==
    /\ pc = "matrix"
    /\ ncalls < MaxCalls
    /\ \E v \in Values, i, j \in 0 .. (Shape(matrix) - 1) :
          /\ matrix' = Put(matrix, <<v>>, <<i>>, <<j>>, 1)
          /\ call' = [op |-> "put", vector |-> <<v>>, id1 |-> <<i>>, id2 |-> <<j>>]
    /\ ncalls' = ncalls + 1
    /\ UNCHANGED solveVars

\* L.putDiagonal(vector) with a vector no longer than the diagonal
CallPutDiagonal ==
    /\ pc = "matrix"
    /\ ncalls < MaxCalls
    /\ \E vector \in Vectors(Shape(matrix)) :
          /\ matrix' = PutDiagonal(matrix, vector)
          /\ call' = [op |-> "putDiagonal", vector |-> vector,
                      id1 |-> Arange(Len(vector)), id2 |-> Arange(Len(vector))]
    /\ ncalls' = ncalls + 1
    /\ UNCHANGED solveVars

NextMatrix ==
    \/ CallPut
    \/ CallPutDiagonal

SpecMatrix == InitMatrix /\ [][NextMatrix]_vars

\* ==================================================================== claims
\* the cells joined through shared faces to a cell of S
RECURSIVE Connected(_, _)
Connected(m, S) ==
    LET T == S \cup UNION {Neighbours(m, c) : c \in S}
    IN  IF T = S THEN S ELSE Connected(m, T)

Classified == {c \in Cells(mesh) : flag1[c] = 1}

\* c has a neighbour whose initial value is of the opposite sign
OppositeNeighbours(c) ==
    {n \in Neighbours(mesh, c) : Sign(var0[c]) * Sign(var0[n]) = 0 - 1}

NoDuplicates(seq) ==
    \A i, j \in 1 .. Len(seq) : i # j => seq[i] # seq[j]

\* ------------------------------------------------------------------- C1
\* C1: with both signs in the initial field, in every state of solve() each
\* cell's value has the sign (negative, zero, positive) of its initial value.
\* The code breaks it: a cell that starts at zero is never classified and is
\* given a non-zero value by _calcTrialValue.
C1_SignPreserved ==
    HasSignChange(var0) =>
        \A c \in Cells(mesh) : Sign(var[c]) = Sign(var0[c])

\* ------------------------------------------------------------------- C2
\* C2: once a cell is Known (flag 1) no later step of solve() changes its
\* value or its status.
C2_KnownImmutable ==
    [][\A c \in Cells(mesh) :
          setValueFlag[c] = 1 => (setValueFlag'[c] = 1 /\ var'[c] = var[c])]_vars

\* the propagator ran on a field with classified cells and finalized others
C2_Witness ==
    /\ pc = "done"
    /\ Classified # {}
    /\ Len(order) >= 2

\* ------------------------------------------------------------------- C3
\* C3: when solve() finishes, the cells connected through cell adjacency to a
\* classified cell are Known, the others are Unknown and hold their initial
\* value, and none is Trial.
C3_FinalStatus ==
    pc = "done" =>
        \A c \in Cells(mesh) :
            IF c \in Connected(mesh, Classified)
            THEN setValueFlag[c] = 1
            ELSE setValueFlag[c] = 0 /\ var[c] = var0[c]

\* solve() finished on a cut mesh: one part marched, the other left Unknown
C3_Witness ==
    /\ pc = "done"
    /\ Len(order) >= 1
    /\ \E c \in Cells(mesh) : setValueFlag[c] = 0
    /\ \E c \in Cells(mesh) : c \in Connected(mesh, Classified) /\ flag1[c] = 0

\* ------------------------------------------------------------------- C4
\* the propagator loop has ended, by its test or by an exception
LoopEnded == pc \in {"done", "marching_error"}

NotKnown(f) == {c \in DOMAIN f : f[c] # 1}

C5_RejectsNoSignChange ==
    (~HasSignChange(var0) /\ pc # "solve") =>
        /\ err = "InvalidInput"
        /\ var = var0
        /\ \A c \in Cells(mesh) : setValueFlag[c] = 0

\* ------------------------------------------------------------------- C6
\* C6: _calcTrialValue with a negative discriminant argument reports a fatal
\* numerical-degeneracy error and never returns or stores a value computed
\* from the square root of the negative number.  The code makes no test of
\* the argument: where Numeric.sqrt does not raise, not-a-number is stored.
C6_DegeneracyReported ==
    \A c \in Cells(mesh) : ~IsNaN(var[c])

\* ------------------------------------------------------------------- C7
\* C7: _calcTrialValue called for a cell none of whose neighbours is Known
\* fails with the named error ComputationError.  The code runs "raise Error"
\* with no name Error in scope, which raises NameError instead.
C7_NamedError ==
    (pc = "called" /\ NSetValues(mesh, setValueFlag, ret.cell) = 0) =>
        ret.kind = "ComputationError"

\* ------------------------------------------------------------------- C8
\* the number of cells that start negative
NegativeCount == Cardinality({c \in Cells(mesh) : var0[c] < 0})

\* C8: on a row of n cells of spacing dx that starts at -1 on the first k
\* cells and +1 on the others, solve() leaves (i - k + 1/2) * dx in cell i.
C8_RowDistance ==
    pc = "done" =>
        \A i \in Cells(mesh) :
            2 * var[i] = (2 * (i - NegativeCount) + 1) * mesh.dx

\* n = 8, k = 4, dx = 0.5: (-1.75, -1.25, -0.75, -0.25, 0.25, 0.75, 1.25, 1.75)
C8_Witness ==
    /\ pc = "done"
    /\ mesh.nx = 8 /\ mesh.dx = Scale \div 2
    /\ NegativeCount = 4
    /\ var = [i \in 0 .. 7 |-> (2 * i - 7) * (Scale \div 4)]

\* ------------------------------------------------------------------- C9
\* C9: after the interface classifier a cell is flagged (1) exactly if one of
\* its neighbours holds a value of the opposite sign; every other cell keeps
\* flag 0 and its value.
C9_ClassifiedIffOpposite ==
    pc = "interface" =>
        \A c \in Cells(mesh) :
            IF OppositeNeighbours(c) # {}
            THEN setValueFlag[c] = 1
            ELSE setValueFlag[c] = 0 /\ var[c] = var0[c]

\* the classifier ran on a field where it flags some cells and not others
C9_Witness ==
    /\ pc = "interface"
    /\ \E c \in Cells(mesh) : setValueFlag[c] = 1 /\ var[c] # var0[c]
    /\ \E c \in Cells(mesh) : setValueFlag[c] = 0 /\ var0[c] # 0

\* ------------------------------------------------------------------ C10
\* the slots of c whose neighbour starts with the opposite sign
OppositeSlots(c) ==
    {s \in Slots : /\ HasNeighbour(mesh, c, s)
                   /\ CellToCellIDsFilled(mesh, c, s) \in OppositeNeighbours(c)}

\* phi_self * d / (phi_self - phi_neighbor), the candidate as C10 writes it
SignedCandidate(c, s) ==
    Div(var0[c] * CellToCellDistances(mesh, c, s),
        var0[c] - var0[CellToCellIDsFilled(mesh, c, s)])

\* phi_self * d / |phi_self - phi_neighbor|
Candidate(c, s) ==
    Div(var0[c] * CellToCellDistances(mesh, c, s),
        Abs(var0[c] - var0[CellToCellIDsFilled(mesh, c, s)]))

\* C10 as stated: the classifier writes the candidate
\* phi_self * d / (phi_self - phi_neighbor) of least magnitude.  Refuted at
\* every classified cell that starts negative: that quotient is positive.
C10_SignedCandidate ==
    pc = "interface" =>
        \A c \in Cells(mesh) :
            OppositeSlots(c) # {} =>
                /\ \E s \in OppositeSlots(c) : var[c] = SignedCandidate(c, s)
                /\ \A s \in OppositeSlots(c) :
                      Abs(var[c]) <= Abs(SignedCandidate(c, s))

\* C10, amended: for each cell with an opposite-sign neighbour the classifier
\* writes the candidate phi_self * d / |phi_self - phi_neighbor| of least
\* magnitude over those neighbours, which has the sign of phi_self.
C10_Candidate ==
    pc = "interface" =>
        \A c \in Cells(mesh) :
            OppositeSlots(c) # {} =>
                /\ \E s \in OppositeSlots(c) : var[c] = Candidate(c, s)
                /\ \A s \in OppositeSlots(c) :
                      Abs(var[c]) <= Abs(Candidate(c, s))

\* a cell with two opposite-sign neighbours at different distances took the
\* nearer crossing, and the 2 x 1 grid of the doctest gives (-0.5, 0.5)
C10_Witness ==
    \/ /\ pc = "interface"
       /\ \E c \in Cells(mesh) :
             \E s, t \in OppositeSlots(c) :
                 Abs(Candidate(c, s)) < Abs(Candidate(c, t))
    \/ /\ pc = "interface"
       /\ mesh = [nx |-> 2, ny |-> 1, dx |-> Scale, dy |-> Scale, cut |-> 0]
       /\ var0 = <<0 - Scale, Scale>>
       /\ var = <<0 - (Scale \div 2), Scale \div 2>>

\* ------------------------------------------------------------------ C11
\* C11: after the trial-band initializer a cell is Trial (flag 2) exactly if
\* phase 1 did not classify it and classified one of its neighbours; the
\* classified cells keep flag 1, every other cell keeps flag 0, and the
\* initializer rewrites the value of no cell but the Trial ones.
C11_TrialBand ==
    /\ [](pc = "trial" =>
            \A c \in Cells(mesh) :
                IF flag1[c] = 1 THEN setValueFlag[c] = 1
                ELSE IF \E n \in Neighbours(mesh, c) : flag1[n] = 1
                THEN setValueFlag[c] = 2
                ELSE setValueFlag[c] = 0)
    /\ [][pc = "interface" =>
            \A c \in Cells(mesh) :
                setValueFlag'[c] # 2 => var'[c] = var[c]]_vars

\* the initializer returned a band with a rewritten Trial cell between a
\* classified cell and a cell left Unknown
C11_Witness ==
    /\ pc = "trial"
    /\ \E c \in Cells(mesh) : setValueFlag[c] = 2 /\ var[c] # var0[c]
    /\ \E c \in Cells(mesh) : setValueFlag[c] = 1
    /\ \E c \in Cells(mesh) : setValueFlag[c] = 0

\* ------------------------------------------------------------------ C12
\* the diagonal of the matrix, as takeDiagonal() reads it
Diagonal(mat) == [i \in 1 .. Shape(mat) |-> mat[<<i - 1, i - 1>>]]

\* C12: putDiagonal(vector) with a vector of length k <= N sets the entries
\* (i, i), i < k, to vector[i] and leaves every other entry as it was, the
\* diagonal entries (i, i), i >= k, included; putDiagonal((3, 10, pi)) followed
\* by putDiagonal((10, 3)) leaves (10, 3, pi) on the first three diagonal
\* entries (the whole diagonal of the 3 x 3 matrix of the doctest).
C12_PutDiagonalFrame ==
    /\ [][(call'.op = "putDiagonal" /\ ncalls' = ncalls + 1) =>
            \A p \in DOMAIN matrix :
                matrix'[p] = IF p[1] = p[2] /\ p[1] < Len(call'.vector)
                             THEN call'.vector[p[1] + 1]
                             ELSE matrix[p]]_vars
    /\ [][(/\ call.op = "putDiagonal"
           /\ call.vector = <<3 * Scale, 10 * Scale, Pi>>
           /\ call'.op = "putDiagonal"
           /\ call'.vector = <<10 * Scale, 3 * Scale>>
           /\ ncalls' = ncalls + 1) =>
            SubSeq(Diagonal(matrix'), 1, 3) = <<10 * Scale, 3 * Scale, Pi>>]_vars

\* putDiagonal((3, 10, pi)) then putDiagonal((10, 3)) on a 3 x 3 matrix: the
\* third diagonal entry is the one the first call wrote
C12_Witness ==
    /\ pc = "matrix"
    /\ Shape(matrix) = 3
    /\ ncalls = 2
    /\ call.op = "putDiagonal"
    /\ call.vector = <<10 * Scale, 3 * Scale>>
    /\ Diagonal(matrix) = <<10 * Scale, 3 * Scale, Pi>>

\* ------------------------------------------------------- C13, C14, C15
\* a step of the propagator loop that finalizes a cell
MarchStep == pc = "marching" /\ pc' \in {"marching", "marching_error"}

\* the cell the last iteration finalized
Finalized(o) == o[Len(o)]

\* the Trial cells
TrialSet(f) == {c \in DOMAIN f : f[c] = 2}

\* abs(x) <= abs(y) as floats compare: false where either is not-a-number
LeqAbs(x, y) == ~IsNaN(x) /\ ~IsNaN(y) /\ Abs(x) <= Abs(y)

\* the Trial cells of least magnitude
MinTrialCells(v, f) ==
    {c \in TrialSet(f) : \A d \in TrialSet(f) : LeqAbs(v[c], v[d])}

Pos(ids, c) ==
    CHOOSE i \in 1 .. Len(ids) : ids[i] = c /\ \A j \in 1 .. (i - 1) : ids[j] # c

UsedNeighbours(m, v, f, c) ==
    IF NSetValues(m, f, c) = 1
    THEN {CellToCellIDsFilled(m, c, s) : s \in KnownSlots(m, f, c)}
    ELSE UNION {{CellToCellIDsFilled(m, c, p[1]), CellToCellIDsFilled(m, c, p[2])} :
                p \in FirstTwo(m, v, f, c)}

\* C15: the magnitudes of the cells the propagator finalizes never decrease
\* along the order of finalization, and a cell it finalizes is at least as
\* large in magnitude as each Known neighbour its value was computed from.
C15_Causal ==
    /\ [](\A i, j \in 1 .. Len(order) :
              i < j => LeqAbs(var[order[i]], var[order[j]]))
    /\ [][MarchStep =>
            \A n \in UsedNeighbours(mesh, var, setValueFlag, Finalized(order')) :
                LeqAbs(var[n], var[Finalized(order')])]_vars

\* ------------------------------------------------------------------ C16
\* C16: during solve() the Trial Value Calculator is never called for a cell
\* with no Known neighbour, neither by the initializer nor by the relax step
\* of the propagator: the branch that raises for zero Known neighbours is
\* never taken.
C16_NeverZeroKnown ==
    err # "NameError"

\* solve() returned after the initializer computed a cell beside a classified
\* cell and the relax step computed a cell that has no classified neighbour
C16_Witness ==
    /\ pc = "done"
    /\ \E i \in 1 .. Len(order) :
          \E n \in Neighbours(mesh, order[i]) : flag1[n] = 1
    /\ \E i \in 1 .. Len(order) :
          \A n \in Neighbours(mesh, order[i]) : flag1[n] = 0

\* ------------------------------------------------------------------ C17
\* C17: from the moment the initializer has set the flags to the end of
\* solve(), each Trial cell has at least one Known neighbour.
C17_TrialHasKnownNeighbour ==
    pc \in {"trial", "trial_error", "marching", "marching_error", "done"} =>
        \A c \in TrialSet(setValueFlag) :
            \E n \in Neighbours(mesh, c) : setValueFlag[n] = 1

\* inside the propagator, a cell the relax step made Trial stands beside the
\* cell the propagator finalized
C17_Witness ==
    /\ pc = "marching"
    /\ Len(order) >= 1
    /\ \E c \in TrialSet(setValueFlag) :
          /\ \A n \in Neighbours(mesh, c) : flag1[n] = 0
          /\ Finalized(order) \in Neighbours(mesh, c)

\* ------------------------------------------------------------------ C18
\* C18: the status of a cell changes monotonically: a Known cell stays Known,
\* a Trial cell never turns Unknown, and only the interface classifier takes a
\* cell from Unknown to Known (inside the propagator a cell becomes Known
\* from Trial only).
C18_StatusMonotonic ==
    [][\A c \in Cells(mesh) :
          /\ setValueFlag[c] = 1 => setValueFlag'[c] = 1
          /\ setValueFlag[c] = 2 => setValueFlag'[c] \in {1, 2}
          /\ (setValueFlag[c] = 0 /\ setValueFlag'[c] = 1) => pc = "solve"]_vars

\* solve() returned after a cell went Unknown, Trial, Known inside the
\* propagator, beside cells the classifier made Known
C18_Witness ==
    /\ pc = "done"
    /\ Classified # {}
    /\ \E i \in 1 .. Len(order) :
          /\ setValueFlag[order[i]] = 1
          /\ \A n \in Neighbours(mesh, order[i]) : flag1[n] = 0

\* ------------------------------------------------------------------ C19
\* the cells of a list
Range(seq) == {seq[i] : i \in 1 .. Len(seq)}

\* C19: an iteration of the propagator that finalizes cell X changes the
\* status of X from Trial to Known and the values of the neighbours of X that
\* are not Known, and nothing else of the field and the flags but this: a
\* neighbour that was Unknown becomes Trial and is appended to the trial list
\* (each of them, where the iteration runs to its end).  The value of X and
\* the value and status of every cell that is Known or is no neighbour of X
\* are unchanged, and X leaves the list.
C19_IterationFrame ==
    [][MarchStep =>
          LET X == Finalized(order')
              N == Neighbours(mesh, X)
              fresh == {c \in N : setValueFlag[c] = 0 /\ setValueFlag'[c] = 2}
          IN  /\ setValueFlag[X] = 2 /\ setValueFlag'[X] = 1
              /\ var'[X] = var[X]
              /\ \A c \in Cells(mesh) \ {X} :
                    (setValueFlag[c] = 1 \/ c \notin N) =>
                        var'[c] = var[c] /\ setValueFlag'[c] = setValueFlag[c]
              /\ \A c \in N :
                    /\ setValueFlag[c] = 2 => setValueFlag'[c] = 2
                    /\ setValueFlag[c] = 0 => setValueFlag'[c] \in {0, 2}
                    /\ (setValueFlag[c] = 0 /\ setValueFlag'[c] = 0) =>
                          (var'[c] = var[c] /\ pc' = "marching_error")
              /\ Len(trialCellIDs') = Len(trialCellIDs) - 1 + Cardinality(fresh)
              /\ Range(trialCellIDs') = (Range(trialCellIDs) \ {X}) \cup fresh]_vars

\* an iteration ran to its end after it made an Unknown neighbour of the
\* finalized cell Trial, gave it a value and appended it to the list
C19_Witness ==
    /\ pc = "marching"
    /\ Len(order) >= 1
    /\ trialCellIDs # <<>>
    /\ LET c == trialCellIDs[Len(trialCellIDs)]
       IN  /\ c \in Neighbours(mesh, Finalized(order))
           /\ setValueFlag[c] = 2
           /\ \A n \in Neighbours(mesh, c) : flag1[n] = 0
           /\ var[c] # var0[c]

\* ------------------------------------------------------------------ C20
\* the call of _calcTrialValue for cell c gives the same outcomes on field w
\* as on the field at hand
SameResult(c, w) ==
    CalcTrialValue(mesh, w, setValueFlag, c) = CalcTrialValue(mesh, var, setValueFlag, c)

KnownNeighbourSlots(c) ==
    {s \in Slots : /\ HasNeighbour(mesh, c, s)
                   /\ setValueFlag[CellToCellIDsFilled(mesh, c, s)] = 1}

\* the value of the neighbour of c behind slot s
PhiAdj(c, s) == var[CellToCellIDsFilled(mesh, c, s)]

\* the pairs <<first, second>> of Known neighbours of smallest magnitude,
\* smallest first (any pair where a value is not-a-number and has no rank)
SmallestTwo(c) ==
    {p \in KnownNeighbourSlots(c) \X KnownNeighbourSlots(c) :
        /\ p[1] # p[2]
        /\ \/ \E s \in KnownNeighbourSlots(c) : IsNaN(PhiAdj(c, s))
           \/ /\ Abs(PhiAdj(c, p[1])) <= Abs(PhiAdj(c, p[2]))
              /\ \A s \in KnownNeighbourSlots(c) \ {p[1], p[2]} :
                    Abs(PhiAdj(c, p[2])) <= Abs(PhiAdj(c, s))}

\* the stored value of c is > 0
StoredPositive(c) == ~IsNaN(var[c]) /\ var[c] > 0

\* the result r is the one the linear formula gives from the one Known
\* neighbour of c
IsLinearResult(c, r) ==
    \E s \in KnownNeighbourSlots(c) :
        /\ r.kind = "ok"
        /\ r.val = IF IsNaN(PhiAdj(c, s)) THEN NaN
                   ELSE IF StoredPositive(c)
                   THEN PhiAdj(c, s) + CellToCellDistances(mesh, c, s)
                   ELSE PhiAdj(c, s) - CellToCellDistances(mesh, c, s)

\* the result r is one the quadratic solve gives from the two Known
\* neighbours of c of smallest magnitude
IsQuadraticResult(c, r) ==
    \E p \in SmallestTwo(c) :
        \E q \in CalcQuadratic(PhiAdj(c, p[1]), PhiAdj(c, p[2]),
                                CellNormals(mesh, c, p[1]), CellNormals(mesh, c, p[2]),
                                CellToCellDistances(mesh, c, p[1]),
                                CellToCellDistances(mesh, c, p[2])) :
            /\ r.kind = q.kind
            /\ r.val = IF StoredPositive(c) THEN q.roots[1] ELSE q.roots[2]

C22_ListIsTrialSet ==
    pc = "marching" =>
        /\ Range(trialCellIDs) = TrialSet(setValueFlag)
        /\ NoDuplicates(trialCellIDs)

\* at a loop head after an iteration, the list holds a cell that was Trial at
\* entry followed by a cell the loop appended, while other cells are Unknown
C22_Witness ==
    /\ pc = "marching"
    /\ Len(order) >= 1
    /\ Len(trialCellIDs) >= 2
    /\ \E n \in Neighbours(mesh, trialCellIDs[1]) : flag1[n] = 1
    /\ \A n \in Neighbours(mesh, trialCellIDs[Len(trialCellIDs)]) : flag1[n] = 0
    /\ \E c \in Cells(mesh) : setValueFlag[c] = 0

\* ------------------------------------------------------------------ C23
\* the values _calcTrialValue can return for cell c in the state at hand
FreshValues(c) ==
    {o.val : o \in {r \in CalcTrialValue(mesh, var, setValueFlag, c) : r.kind = "ok"}}

\* C23: at the head of every iteration of the propagator loop the stored
\* value of each Trial cell is the value _calcTrialValue returns for it from
\* the Known neighbours at hand.
C23_TrialValuesFresh ==
    pc = "marching" =>
        \A c \in TrialSet(setValueFlag) : var[c] \in FreshValues(c)

====
